---- MODULE Spec2Model ----
(***************************************************************************)
(* State-machine model of the ceylonmine backend route handlers            *)
(* (contact.py, license.py, minerpage.py, unlicensedminer.py).             *)
(*                                                                         *)
(* The remote database is a set of tables (sequences of rows, in table     *)
(* order), the remote object store is the set of object names held by the  *)
(* bucket 'documents'.  One request is handled at a time.  A handler that  *)
(* issues one remote call is one action; a handler that issues several is  *)
(* one action per remote call, the outcome of each call (success, a raised *)
(* remote error, an empty result) being chosen when the call is issued.    *)
(*                                                                         *)
(* Python values.  Text that the code parses (dates, periods, file names)  *)
(* is a sequence of one-character strings; other strings are atoms.  The   *)
(* Python None is NoneText among texts and None among atoms.  A JSON       *)
(* object is a record, a JSON list a sequence.                             *)
(***************************************************************************)
EXTENDS Integers, Sequences, FiniteSets, TLC

(***************************************************************************)
(* Bounds of the model.                                                    *)
(***************************************************************************)
\* rows the requests may insert, all tables together, before the model stops
\* taking requests that write
MaxInserts == 1
\* unique object names the requests may draw before the model stops taking files
MaxUuid == 1

\* the tokens the argument of a helper function is made of, at most
MaxTokens == 3

(***************************************************************************)
(* Python values                                                           *)
(***************************************************************************)
None == "None"
NoneText == <<"None">>

\* bool(x) of an atom string or None
Truthy(x) == x # None /\ x # ""

\* bool(x) of a text or None
TruthyText(x) == x # NoneText /\ x # <<>>

\* a or b
PyOr(a, b) == IF Truthy(a) THEN a ELSE b

Digits == <<"0", "1", "2", "3", "4", "5", "6", "7", "8", "9">>

IsDigit(c) == \E i \in 1..10 : Digits[i] = c

DigitVal(c) == (CHOOSE i \in 1..10 : Digits[i] = c) - 1

\* int(s) of a run of decimal digits
RECURSIVE IntOf(_)
IntOf(s) ==
    IF s = <<>> THEN 0
    ELSE 10 * IntOf(SubSeq(s, 1, Len(s) - 1)) + DigitVal(s[Len(s)])

AllDigits(s) == \A i \in 1..Len(s) : IsDigit(s[i])

\* n written with at least w decimal digits, zero padded (the %Y, %m, %d of strftime)
RECURSIVE ZeroPad(_, _)
ZeroPad(n, w) ==
    IF w <= 1 /\ n < 10 THEN <<Digits[n + 1]>>
    ELSE Append(ZeroPad(n \div 10, w - 1), Digits[(n % 10) + 1])

Upper == <<"A", "B", "C", "D", "E", "F", "G", "H", "I", "J", "K", "L", "M",
           "N", "O", "P", "Q", "R", "S", "T", "U", "V", "W", "X", "Y", "Z">>
Lower == <<"a", "b", "c", "d", "e", "f", "g", "h", "i", "j", "k", "l", "m",
           "n", "o", "p", "q", "r", "s", "t", "u", "v", "w", "x", "y", "z">>

\* c.lower()
LowerChar(c) ==
    IF \E i \in 1..26 : Upper[i] = c
    THEN Lower[CHOOSE i \in 1..26 : Upper[i] = c]
    ELSE c

\* s.lower()
LowerText(s) == [i \in 1..Len(s) |-> LowerChar(s[i])]

\* sub in s
Contains(s, sub) ==
    \E i \in 0..(Len(s) - Len(sub)) : SubSeq(s, i + 1, i + Len(sub)) = sub

\* index of the first occurrence of character c in s, 0 when there is none
IndexOf(s, c) ==
    IF \E i \in 1..Len(s) : s[i] = c
    THEN CHOOSE i \in 1..Len(s) : s[i] = c /\ \A j \in 1..(i - 1) : s[j] # c
    ELSE 0

\* index of the last occurrence of character c in s, 0 when there is none
LastIndexOf(s, c) ==
    IF \E i \in 1..Len(s) : s[i] = c
    THEN CHOOSE i \in 1..Len(s) : s[i] = c /\ \A j \in (i + 1)..Len(s) : s[j] # c
    ELSE 0

\* s.split(c): the pieces of s between occurrences of c
RECURSIVE Split(_, _)
Split(s, c) ==
    IF IndexOf(s, c) = 0 THEN <<s>>
    ELSE <<SubSeq(s, 1, IndexOf(s, c) - 1)>>
             \o Split(SubSeq(s, IndexOf(s, c) + 1, Len(s)), c)

\* the first run of decimal digits of s (re.search(r'\d+', s).group()), <<>> when none
FirstDigitRun(s) ==
    IF \E i \in 1..Len(s) : IsDigit(s[i])
    THEN LET b == CHOOSE i \in 1..Len(s) :
                      IsDigit(s[i]) /\ \A j \in 1..(i - 1) : ~IsDigit(s[j])
             e == CHOOSE k \in b..Len(s) :
                      /\ \A j \in b..k : IsDigit(s[j])
                      /\ (k = Len(s) \/ ~IsDigit(s[k + 1]))
         IN  SubSeq(s, b, e)
    ELSE <<>>

(***************************************************************************)
(* Calendar dates (datetime.date): records [year, month, day]              *)
(***************************************************************************)
NoDate == [year |-> 0, month |-> 0, day |-> 0]

IsLeap(y) == y % 4 = 0 /\ (y % 100 # 0 \/ y % 400 = 0)

DaysInMonth(y, m) ==
    IF m = 2 THEN (IF IsLeap(y) THEN 29 ELSE 28)
    ELSE IF m \in {4, 6, 9, 11} THEN 30 ELSE 31

DaysBeforeYear(y) ==
    (y - 1) * 365 + ((y - 1) \div 4) - ((y - 1) \div 100) + ((y - 1) \div 400)

RECURSIVE DaysBeforeMonth(_, _)
DaysBeforeMonth(y, m) ==
    IF m = 1 THEN 0 ELSE DaysBeforeMonth(y, m - 1) + DaysInMonth(y, m - 1)

\* date.toordinal(): 1 for 0001-01-01
ToOrdinal(d) == DaysBeforeYear(d.year) + DaysBeforeMonth(d.year, d.month) + d.day

\* date.max.toordinal(), 9999-12-31
MaxOrdinal == DaysBeforeYear(10000)

\* date.fromordinal(n), for 1 <= n <= MaxOrdinal
FromOrdinal(n) ==
    LET y == CHOOSE yy \in ((n - 1) \div 366 + 1)..((n - 1) \div 365 + 1) :
                 DaysBeforeYear(yy) < n /\ n <= DaysBeforeYear(yy + 1)
        r == n - DaysBeforeYear(y)
        m == CHOOSE mm \in 1..12 :
                 DaysBeforeMonth(y, mm) < r /\ r <= DaysBeforeMonth(y, mm) + DaysInMonth(y, mm)
    IN  [year |-> y, month |-> m, day |-> r - DaysBeforeMonth(y, m)]

\* d.strftime('%Y-%m-%d')
FormatDate(d) ==
    ZeroPad(d.year, 4) \o <<"-">> \o ZeroPad(d.month, 2) \o <<"-">> \o ZeroPad(d.day, 2)

\* the digits of a day as %d reads it: one or two digits, or a space and a digit
DayDigits(day) ==
    IF Len(day) = 2 /\ day[1] = " " /\ day[2] # "0" THEN Tail(day) ELSE day

\* datetime.strptime(s, '%Y-%m-%d').date(); NoDate stands for the ValueError
Strptime(s) ==
    LET p == Split(s, "-") IN
    IF /\ Len(p) = 3
       /\ Len(p[1]) = 4 /\ AllDigits(p[1])
       /\ Len(p[2]) \in {1, 2} /\ AllDigits(p[2])
       /\ Len(p[3]) \in {1, 2} /\ AllDigits(DayDigits(p[3]))
       /\ IntOf(p[1]) >= 1
       /\ IntOf(p[2]) \in 1..12
       /\ IntOf(DayDigits(p[3])) >= 1
       /\ IntOf(DayDigits(p[3])) <= DaysInMonth(IntOf(p[1]), IntOf(p[2]))
    THEN [year |-> IntOf(p[1]), month |-> IntOf(p[2]), day |-> IntOf(DayDigits(p[3]))]
    ELSE NoDate

\* the characters of the model's texts in code-point order, for comparisons
CodePoints == <<" ", "#", "-", ".", "/", "0", "1", "2", "3", "4", "5", "6", "7", "8",
                "9", ":", "E", "F", "P", "T", "a", "b", "d", "e", "f", "h", "m", "n",
                "o", "p", "r", "s", "t", "x", "y">>

CharRank(c) == IF \E i \in 1..Len(CodePoints) : CodePoints[i] = c
               THEN CHOOSE i \in 1..Len(CodePoints) : CodePoints[i] = c
               ELSE 0

\* a < b for two texts, character by character
RECURSIVE TextLess(_, _)
TextLess(a, b) ==
    IF b = <<>> THEN FALSE
    ELSE IF a = <<>> THEN TRUE
    ELSE IF a[1] = b[1] THEN TextLess(Tail(a), Tail(b))
    ELSE CharRank(a[1]) < CharRank(b[1])

MonthAbbr == <<<<"J", "a", "n">>, <<"F", "e", "b">>, <<"M", "a", "r">>, <<"A", "p", "r">>,
               <<"M", "a", "y">>, <<"J", "u", "n">>, <<"J", "u", "l">>, <<"A", "u", "g">>,
               <<"S", "e", "p">>, <<"O", "c", "t">>, <<"N", "o", "v">>, <<"D", "e", "c">>>>

\* d.strftime('%b %d, %Y')
FormatDisplay(d) ==
    MonthAbbr[d.month] \o <<" ">> \o ZeroPad(d.day, 2) \o <<",", " ">> \o ZeroPad(d.year, 4)

(***************************************************************************)
(* The clock.  datetime.now() is Epoch plus the days the clock has         *)
(* advanced; the time of day is fixed.                                     *)
(***************************************************************************)
Epoch == [year |-> 2025, month |-> 12, day |-> 31]

Today(clock) == FromOrdinal(ToOrdinal(Epoch) + clock)

\* datetime.now().isoformat()
NowIso(clock) ==
    FormatDate(Today(clock)) \o <<"T", "1", "2", ":", "0", "0", ":", "0", "0">>

(***************************************************************************)
(* minerpage.py: parse_period, parse_date                                  *)
(***************************************************************************)
\* str(x) of a text or None
PyStr(x) == IF x = NoneText THEN <<"N", "o", "n", "e">> ELSE x

\* A number of years as the fraction num / den.
Years(n, d) == [num |-> n, den |-> d]

\* a run of decimal digits without its leading zeros
StripZeros(s) ==
    IF \A i \in 1..Len(s) : s[i] = "0" THEN <<>>
    ELSE SubSeq(s, CHOOSE i \in 1..Len(s) :
                       s[i] # "0" /\ \A j \in 1..(i - 1) : s[j] = "0",
                Len(s))

\* the least integer n for which n / 12 raises OverflowError (the quotient rounds
\* past the largest float): 12 * (2^1024 - 2^970), in decimal
TrueDivLimit ==
    <<
      "2", "1", "5", "7", "2", "3", "1", "7", "6", "1", "8", "3", "4", "7",
      "7", "8", "9", "6", "9", "5", "2", "4", "7", "4", "7", "6", "5", "6",
      "8", "6", "3", "6", "4", "0", "9", "8", "0", "9", "5", "9", "2", "0",
      "9", "5", "9", "2", "5", "2", "0", "4", "5", "3", "9", "2", "3", "2",
      "3", "4", "0", "8", "5", "3", "4", "7", "7", "6", "5", "3", "3", "9",
      "6", "1", "9", "5", "1", "3", "1", "7", "7", "0", "1", "1", "3", "5",
      "9", "7", "8", "8", "2", "1", "5", "7", "3", "1", "0", "4", "6", "4",
      "8", "5", "1", "5", "5", "9", "6", "3", "4", "3", "7", "0", "0", "0",
      "3", "1", "4", "6", "5", "4", "9", "3", "1", "3", "5", "8", "6", "6",
      "6", "5", "7", "4", "2", "2", "3", "2", "8", "4", "8", "3", "1", "5",
      "6", "7", "8", "8", "9", "8", "6", "4", "0", "5", "8", "0", "6", "9",
      "8", "4", "8", "1", "8", "2", "9", "0", "6", "8", "2", "4", "0", "0",
      "8", "5", "0", "0", "6", "0", "4", "1", "1", "5", "2", "8", "6", "2",
      "5", "8", "1", "4", "9", "8", "1", "2", "5", "3", "8", "3", "8", "1",
      "1", "7", "3", "7", "0", "8", "7", "6", "3", "2", "4", "0", "8", "3",
      "8", "2", "6", "6", "8", "5", "6", "4", "0", "3", "5", "1", "5", "4",
      "7", "4", "1", "1", "4", "9", "7", "7", "8", "3", "8", "3", "3", "0",
      "0", "1", "9", "2", "3", "7", "7", "0", "3", "5", "1", "2", "6", "2",
      "8", "8", "9", "0", "0", "2", "1", "3", "3", "2", "3", "8", "6", "1",
      "2", "8", "4", "5", "2", "1", "1", "2", "5", "3", "8", "7", "1", "6",
      "3", "9", "4", "0", "9", "7", "1", "1", "6", "5", "1", "4", "5", "6",
      "2", "1", "3", "4", "8", "5", "0", "0", "9", "3", "9", "7", "3", "5",
      "0", "4">>

\* int(digits) >= int(limit), limit being written without leading zeros
AtLeast(digits, limit) ==
    LET sig == StripZeros(digits)
    IN  \/ Len(sig) > Len(limit)
        \/ /\ Len(sig) = Len(limit)
           /\ \A i \in 1..Len(sig) :
                 DigitVal(sig[i]) < DigitVal(limit[i])
                     => \E j \in 1..(i - 1) : DigitVal(sig[j]) > DigitVal(limit[j])

\* num / 12 raises OverflowError, num being int(digits)
TrueDivOverflows(digits) == AtLeast(digits, TrueDivLimit)

\* parse_period with the unit matched before the text is lower-cased
parse_period_case_sensitive(period_str) ==
    LET period == LowerText(PyStr(period_str))
        num_match == FirstDigitRun(period)
    IN  IF num_match = <<>> THEN Years(1, 1)
        ELSE IF Contains(PyStr(period_str), <<"m", "o", "n", "t", "h">>)
             THEN IF TrueDivOverflows(num_match) THEN Years(1, 1)
                  ELSE Years(IntOf(num_match), 12)
        ELSE Years(IntOf(num_match), 1)

parse_period(period_str) ==
    LET period == LowerText(PyStr(period_str))
        num_match == FirstDigitRun(period)
    IN  IF num_match = <<>> THEN Years(1, 1)
        ELSE IF Contains(period, <<"m", "o", "n", "t", "h">>)
             THEN IF TrueDivOverflows(num_match) THEN Years(1, 1)
                  ELSE Years(IntOf(num_match), 12)
        ELSE IF \/ Contains(period, <<"y", "e", "a", "r">>)
                \/ Contains(period, <<"y", "r">>)
                \/ Contains(period, <<"y">>)
             THEN Years(IntOf(num_match), 1)
        ELSE Years(IntOf(num_match), 1)

\* the days of the period counted with leap years of 366 days
RoundDays_366(years) == (366 * years.num) \div years.den

\* round(365 * years): Python rounds a half to the even neighbour
RoundDays(years) ==
    LET p == 365 * years.num
        q == p \div years.den
        r == p % years.den
    IN  IF 2 * r < years.den THEN q
        ELSE IF 2 * r > years.den THEN q + 1
        ELSE IF q % 2 = 0 THEN q ELSE q + 1

\* parse_date that leaves the time of an ISO timestamp in place
parse_date_whole(date_str) ==
    IF ~TruthyText(date_str) THEN NoDate ELSE Strptime(date_str)

\* NoDate stands for the None that parse_date returns
parse_date(date_str) ==
    IF ~TruthyText(date_str) THEN NoDate
    ELSE IF Contains(date_str, <<"T">>) THEN Strptime(Split(date_str, "T")[1])
    ELSE Strptime(date_str)

\* timedelta(days=...) accepts at most this many days
MaxTimedeltaDays == 999999999

\* active_date + timedelta(days=days); NoDate stands for the OverflowError
AddDays(d, days) ==
    IF days > MaxTimedeltaDays \/ ToOrdinal(d) + days > MaxOrdinal THEN NoDate
    ELSE FromOrdinal(ToOrdinal(d) + days)

\* datetime.fromisoformat(s): a date YYYY-MM-DD, alone or followed by 'T' and a
\* time; NoDate stands for the ValueError
FromIsoFormat(s) ==
    IF /\ Len(s) >= 10
       /\ Len(s) = 10 \/ s[11] = "T"
       /\ Len(Split(SubSeq(s, 1, 10), "-")) = 3
       /\ \A i \in {6, 7, 9, 10} : IsDigit(s[i])
    THEN Strptime(SubSeq(s, 1, 10))
    ELSE NoDate

(***************************************************************************)
(* license.py: allowed_file, secure_filename, unique names                 *)
(***************************************************************************)
ALLOWED_EXTENSIONS == {<<"p", "d", "f">>, <<"p", "n", "g">>, <<"j", "p", "g">>,
                       <<"j", "p", "e", "g">>}

\* filename.rsplit('.', 1)[1]
RsplitExt(filename) == SubSeq(filename, LastIndexOf(filename, ".") + 1, Len(filename))

allowed_file(filename) ==
    /\ Contains(filename, <<".">>)
    /\ LowerText(RsplitExt(filename)) \in ALLOWED_EXTENSIONS

\* s.strip('._')
RECURSIVE StripDots(_)
StripDots(s) ==
    IF s = <<>> THEN s
    ELSE IF s[1] \in {".", "_"} THEN StripDots(Tail(s))
    ELSE IF s[Len(s)] \in {".", "_"} THEN StripDots(SubSeq(s, 1, Len(s) - 1))
    ELSE s

\* werkzeug's secure_filename on a name of ASCII letters, digits and dots
secure_filename(filename) == StripDots(filename)

\* filename.split('.')[-1]
LastPiece(filename) == Split(filename, ".")[Len(Split(filename, "."))]

\* f"{uuid.uuid4()}.{file_ext}": the k-th identifier drawn, then the extension
UniqueFilename(k, file_ext) == <<"#">> \o ZeroPad(k, 1) \o <<".">> \o file_ext

\* supabase.storage.from_('documents').get_public_url(name)
PublicUrl(name) == <<"d", "o", "c", "u", "m", "e", "n", "t", "s", "/">> \o name

(***************************************************************************)
(* State                                                                   *)
(***************************************************************************)
VARIABLES
    users,          \* table users: rows [id, license_status, active_date]
    application,    \* table application
    documents,      \* table documents
    royalty,        \* table royalty: rows [miner_id, total_amount]
    comments,       \* table comments: rows [miner_id, text, created_at]
    contact_data,   \* table contact_data: rows [name, email, message]
    storage,        \* object names held by the storage bucket 'documents'
    now,            \* the clock: days past Epoch
    uuids,          \* unique identifiers drawn so far
    req,            \* the request being handled: handler, position, inputs, locals
    resp,           \* the response returned for it
    calls           \* the remote calls issued for it, in order

vars == <<users, application, documents, royalty, comments, contact_data, storage,
          now, uuids, req, resp, calls>>

db == <<users, application, documents, royalty, comments, contact_data, storage>>

\* the applications filed before the first request
InitialApplication(miner_id, period) ==
    [miner_id |-> miner_id, exploration_license_no |-> "x", applicant_name |-> "x",
     national_id |-> "x", articles_of_association |-> NoneText,
     annual_reports |-> NoneText, licensed_boundary_survey |-> NoneText,
     status |-> "approved", period_of_validity |-> period]

InitialApplications ==
    <<InitialApplication("u1", <<"2", " ", "y", "e", "a", "r", "s">>),
      InitialApplication("u5", <<"9", "9", "9", "9", " ", "y", "e", "a", "r", "s">>)>>

\* rows inserted since the first request
Inserted ==
    Len(application) + Len(documents) + Len(contact_data) - Len(InitialApplications)

(***************************************************************************)
(* The remote services (supabase-py): tables and the storage bucket        *)
(***************************************************************************)
\* what a remote call can raise (str(e) of the exception)
RemoteErrors == {"connection refused"}

\* outcome of a remote call: done, or one of the errors raised
Outcomes == {"ok"} \cup RemoteErrors

\* outcome of an insert or upload: also done with an empty result
WriteOutcomes == Outcomes \cup {"empty"}

\* table.select(...).eq(column, value).execute().data
SelectEq(table, column, value) == SelectSeq(table, LAMBDA r : r[column] = value)

\* table.update(patch).eq('id', value).execute() on users
UpdateUsers(table, value, patch) ==
    [i \in 1..Len(table) |->
        IF table[i].id = value
        THEN [table[i] EXCEPT !.license_status = patch.license_status,
                              !.active_date = patch.active_date]
        ELSE table[i]]

\* ORDER BY created_at DESC: the row to come first among rows, nulls first
FirstDesc(rows) ==
    CHOOSE i \in 1..Len(rows) :
        \A j \in 1..Len(rows) :
            \/ j = i
            \/ rows[i].created_at = NoneText /\ (rows[j].created_at # NoneText \/ i < j)
            \/ /\ rows[i].created_at # NoneText
               /\ rows[j].created_at # NoneText
               /\ \/ TextLess(rows[j].created_at, rows[i].created_at)
                  \/ rows[j].created_at = rows[i].created_at /\ i < j

\* .order('created_at', desc=True)
RECURSIVE OrderDesc(_)
OrderDesc(rows) ==
    IF rows = <<>> THEN <<>>
    ELSE <<rows[FirstDesc(rows)]>>
             \o OrderDesc([k \in 1..(Len(rows) - 1) |->
                              IF k < FirstDesc(rows) THEN rows[k] ELSE rows[k + 1]])

\* .limit(n)
Limit(rows, n) == SubSeq(rows, 1, IF Len(rows) < n THEN Len(rows) ELSE n)

\* a remote call as logged for the request: operation, table or bucket, what it
\* is about (the id filtered on, the file field, the object), and its outcome
Call(op, target, subject, outcome) ==
    [op |-> op, target |-> target, subject |-> subject, outcome |-> outcome]

\* the call raised
Failed(call) == call.outcome \in RemoteErrors

(***************************************************************************)
(* Requests and responses                                                  *)
(***************************************************************************)
\* request.cookies.get('userId'), request.headers.get('X-User-ID'): None when
\* the request carries no such cookie or header
CookieValues == {None, "", "u1", "u2", "u4", "u6"}
HeaderValues == {None, "", "u1", "u3", "u5"}

\* the <<cookie, header>> pairs of the requests to the read endpoints
Credentials == {<<None, None>>, <<None, "">>, <<"", None>>, <<"", "">>,
                <<"u1", None>>, <<"u2", "u1">>, <<"", "u3">>, <<"u4", "">>,
                <<None, "u5">>, <<"u6", None>>}

\* the <<cookie, header>> pairs of the requests to the write endpoints
WriterCredentials == {<<None, None>>, <<None, "">>, <<"", None>>, <<"", "">>,
                      <<"u1", None>>, <<"u2", "u1">>, <<"", "u3">>}

\* jsonify(body), status
Reply(status, body) == [status |-> status, body |-> body]

NoReply == [status |-> 0, body |-> <<>>]

\* an exception that no handler caught: the framework's fault, not a response
Unhandled(e) == [status |-> -1, body |-> [fault |-> e]]

\* the value a helper function returns, where no HTTP response is made
Return(value) == Reply(0, value)

Idle == [handler |-> "none", pc |-> "idle", cookie |-> None, header |-> None,
         user_id |-> None, loc |-> <<>>]

Request(handler, pc, cookie, header, user_id, loc) ==
    [handler |-> handler, pc |-> pc, cookie |-> cookie, header |-> header,
     user_id |-> user_id, loc |-> loc]

\* get_user_id with a default id for a request that carries none
get_user_id_or_guest(cookie, header) ==
    IF Truthy(PyOr(cookie, header)) THEN PyOr(cookie, header) ELSE "guest"

\* minerpage.py / unlicensedminer.py get_user_id; license.py reads it inline
get_user_id(cookie, header) == PyOr(cookie, header)

\* what a handler has done: its response and the remote calls it issued
Result(reply, issued) == [resp |-> reply, calls |-> issued]

(***************************************************************************)
(* contact.py                                                              *)
(***************************************************************************)
\* request.json of POST /contact/submit: an object (absent keys are None), or
\* NoPayload for a body that is JSON null
NoPayload == [name |-> None, email |-> None, message |-> None, object |-> FALSE]

FieldValues == {None, "", "x"}

Payloads == {[name |-> n, email |-> e, message |-> m, object |-> TRUE] :
                 n \in FieldValues, e \in FieldValues, m \in FieldValues}
            \cup {NoPayload}

\* the except clause of submit_contact and get_contacts
contact_except(e) == Reply(500, [error |-> e])

\* the check of the required fields with email left out
contact_fields_present_no_email(data) == Truthy(data.name) /\ Truthy(data.message)

\* all([data.get('name'), data.get('email'), data.get('message')])
contact_fields_present(data) ==
    Truthy(data.name) /\ Truthy(data.email) /\ Truthy(data.message)

submit_contact(data, outcome) ==
    IF ~data.object
    THEN Result(contact_except("'NoneType' object has no attribute 'get'"), <<>>)
    ELSE IF ~contact_fields_present(data)
    THEN Result(Reply(400, [error |-> "Missing required fields",
                            details |-> "Name, email, and message are required"]), <<>>)
    ELSE LET contact_row == [name |-> data.name, email |-> data.email,
                             message |-> data.message]
             call == Call("insert", "contact_data", "contact", outcome)
         IN  IF outcome \in RemoteErrors THEN Result(contact_except(outcome), <<call>>)
             ELSE IF outcome = "ok"
             THEN Result(Reply(201, [message |-> "Contact message submitted successfully!",
                                     data |-> <<contact_row>>]), <<call>>)
             ELSE Result(Reply(500, [error |-> "Failed to submit contact message",
                                     details |-> "No data returned from Supabase"]),
                         <<call>>)

get_contacts(table, outcome) ==
    LET call == Call("select", "contact_data", "contact", outcome) IN
    IF outcome \in RemoteErrors THEN Result(contact_except(outcome), <<call>>)
    ELSE IF table # <<>> THEN Result(Reply(200, table), <<call>>)
    ELSE Result(Reply(500, [error |-> "Failed to fetch contacts",
                            details |-> "No data returned from Supabase"]), <<call>>)

\* POST /contact/submit
contact_submit ==
    /\ req.pc = "idle"
    /\ Inserted < MaxInserts
    /\ \E data \in Payloads, outcome \in WriteOutcomes :
          LET r == submit_contact(data, outcome) IN
          /\ req' = Request("submit_contact", "done", None, None, None, data)
          /\ resp' = r.resp
          /\ calls' = r.calls
          /\ contact_data' = IF r.resp.status = 201
                             THEN contact_data \o r.resp.body.data
                             ELSE contact_data
    /\ UNCHANGED <<users, application, documents, royalty, comments, storage, now, uuids>>

\* GET /contact/get
contact_get ==
    /\ req.pc = "idle"
    /\ \E outcome \in Outcomes :
          LET r == get_contacts(contact_data, outcome) IN
          /\ req' = Request("get_contacts", "done", None, None, None, <<>>)
          /\ resp' = r.resp
          /\ calls' = r.calls
    /\ UNCHANGED <<db, now, uuids>>

(***************************************************************************)
(* license.py: GET /license/get                                            *)
(***************************************************************************)
get_licenses(table, cookie, header, outcome) ==
    LET user_id == PyOr(cookie, header) IN
    IF ~Truthy(user_id) THEN Result(Reply(401, [error |-> "User ID not provided"]), <<>>)
    ELSE LET call == Call("select", "application", user_id, outcome) IN
         IF outcome \in RemoteErrors
         THEN Result(Reply(500, [error |-> "Failed to retrieve applications"]), <<call>>)
         ELSE Result(Reply(200, SelectEq(table, "miner_id", user_id)), <<call>>)

\* GET /license/get
license_get ==
    /\ req.pc = "idle"
    /\ \E cookie \in CookieValues, header \in HeaderValues, outcome \in Outcomes :
          /\ <<cookie, header>> \in Credentials
          /\ LET r == get_licenses(application, cookie, header, outcome) IN
             /\ req' = Request("get_licenses", "done", cookie, header,
                               PyOr(cookie, header), <<>>)
             /\ resp' = r.resp
             /\ calls' = r.calls
    /\ UNCHANGED <<db, now, uuids>>

(***************************************************************************)
(* minerpage.py: GET /miner/royalty, GET /miner/announcements              *)
(***************************************************************************)
\* the except clause of the three /miner handlers
miner_except(e) == Reply(500, [error |-> "Internal server error"])

\* get_royalty with the filter on miner_id left out
get_royalty_unfiltered(table, cookie, header, outcome) ==
    LET user_id == get_user_id(cookie, header) IN
    IF ~Truthy(user_id) THEN Result(Reply(401, [error |-> "User ID not provided"]), <<>>)
    ELSE LET call == Call("select", "royalty", user_id, outcome) IN
         IF outcome \in RemoteErrors THEN Result(miner_except(outcome), <<call>>)
         ELSE IF table = <<>>
         THEN Result(Reply(404, [error |-> "No royalty data found"]), <<call>>)
         ELSE Result(Reply(200, [royalty_amount_due |-> table[1].total_amount,
                                 due_by |-> "2025-03-15"]), <<call>>)

get_royalty(table, cookie, header, outcome) ==
    LET user_id == get_user_id(cookie, header) IN
    IF ~Truthy(user_id) THEN Result(Reply(401, [error |-> "User ID not provided"]), <<>>)
    ELSE LET call == Call("select", "royalty", user_id, outcome)
             royalty_data == SelectEq(table, "miner_id", user_id)
         IN  IF outcome \in RemoteErrors THEN Result(miner_except(outcome), <<call>>)
             ELSE IF royalty_data = <<>>
             THEN Result(Reply(404, [error |-> "No royalty data found"]), <<call>>)
             ELSE Result(Reply(200, [royalty_amount_due |-> royalty_data[1].total_amount,
                                     due_by |-> "2025-03-15"]), <<call>>)

\* announcements are cut to this many items
AnnouncementLimit == 5

\* one item of the list /miner/announcements returns
miner_format_announcement(item) ==
    [text |-> item.text,
     date |-> IF TruthyText(item.created_at) /\ parse_date(item.created_at) # NoDate
              THEN FormatDisplay(parse_date(item.created_at))
              ELSE <<>>]

miner_get_announcements(table, cookie, header, outcome) ==
    LET user_id == get_user_id(cookie, header) IN
    IF ~Truthy(user_id) THEN Result(Reply(401, [error |-> "User ID not provided"]), <<>>)
    ELSE LET call == Call("select", "comments", user_id, outcome)
             announcements == Limit(OrderDesc(SelectEq(table, "miner_id", user_id)),
                                    AnnouncementLimit)
         IN  IF outcome \in RemoteErrors THEN Result(miner_except(outcome), <<call>>)
             ELSE Result(Reply(200,
                      [announcements |-> [k \in 1..Len(announcements) |->
                                             miner_format_announcement(announcements[k])],
                       status_categories |-> <<"Pending", "Submitted", "Completed",
                                               "Approved">>]), <<call>>)

\* GET /miner/royalty
miner_royalty ==
    /\ req.pc = "idle"
    /\ \E cookie \in CookieValues, header \in HeaderValues, outcome \in Outcomes :
          /\ <<cookie, header>> \in Credentials
          /\ LET r == get_royalty(royalty, cookie, header, outcome) IN
             /\ req' = Request("get_royalty", "done", cookie, header,
                               get_user_id(cookie, header), <<>>)
             /\ resp' = r.resp
             /\ calls' = r.calls
    /\ UNCHANGED <<db, now, uuids>>

\* GET /miner/announcements
miner_announcements ==
    /\ req.pc = "idle"
    /\ \E cookie \in CookieValues, header \in HeaderValues, outcome \in Outcomes :
          /\ <<cookie, header>> \in Credentials
          /\ LET r == miner_get_announcements(comments, cookie, header, outcome) IN
             /\ req' = Request("miner_get_announcements", "done", cookie, header,
                               get_user_id(cookie, header), <<>>)
             /\ resp' = r.resp
             /\ calls' = r.calls
    /\ UNCHANGED <<db, now, uuids>>

(***************************************************************************)
(* unlicensedminer.py: the four read handlers                              *)
(***************************************************************************)
\* the except clause of the four read handlers of /unlicensedminer
unlicensed_except(e) == Reply(500, [error |-> "Internal server error"])

get_user_status(table, cookie, header, outcome) ==
    LET user_id == get_user_id(cookie, header) IN
    IF ~Truthy(user_id) THEN Result(Reply(401, [error |-> "Authentication required"]), <<>>)
    ELSE LET call == Call("select", "application", user_id, outcome)
             data == SelectEq(table, "miner_id", user_id)
         IN  IF outcome \in RemoteErrors THEN Result(unlicensed_except(outcome), <<call>>)
             ELSE IF data = <<>>
             THEN Result(Reply(404, [error |-> "Application not found",
                                     solution |-> "Please submit an application first"]),
                         <<call>>)
             ELSE Result(Reply(200, [status |-> data[1].status, miner_id |-> user_id]),
                         <<call>>)

get_application_details(table, cookie, header, outcome) ==
    LET user_id == get_user_id(cookie, header) IN
    IF ~Truthy(user_id) THEN Result(Reply(401, [error |-> "Authentication required"]), <<>>)
    ELSE LET call == Call("select", "application", user_id, outcome)
             data == SelectEq(table, "miner_id", user_id)
         IN  IF outcome \in RemoteErrors THEN Result(unlicensed_except(outcome), <<call>>)
             ELSE IF data = <<>>
             THEN Result(Reply(404, [error |-> "Application not found"]), <<call>>)
             ELSE Result(Reply(200, [application |-> data[1]]), <<call>>)

get_documents(table, cookie, header, outcome) ==
    LET user_id == get_user_id(cookie, header) IN
    IF ~Truthy(user_id) THEN Result(Reply(401, [error |-> "Authentication required"]), <<>>)
    ELSE LET call == Call("select", "documents", user_id, outcome) IN
         IF outcome \in RemoteErrors THEN Result(unlicensed_except(outcome), <<call>>)
         ELSE Result(Reply(200, [documents |-> SelectEq(table, "miner_id", user_id)]),
                     <<call>>)

\* one item of the list /unlicensedminer/announcements returns
unlicensed_format_announcement(item) ==
    [text |-> item.text,
     date |-> IF TruthyText(item.created_at)
              THEN FormatDisplay(FromIsoFormat(item.created_at))
              ELSE <<>>]

unlicensed_get_announcements(table, cookie, header, outcome) ==
    LET user_id == get_user_id(cookie, header) IN
    IF ~Truthy(user_id) THEN Result(Reply(401, [error |-> "Authentication required"]), <<>>)
    ELSE LET call == Call("select", "comments", user_id, outcome)
             data == OrderDesc(SelectEq(table, "miner_id", user_id))
         IN  IF outcome \in RemoteErrors THEN Result(unlicensed_except(outcome), <<call>>)
             ELSE IF \E k \in 1..Len(data) : /\ TruthyText(data[k].created_at)
                                             /\ FromIsoFormat(data[k].created_at) = NoDate
             THEN Result(unlicensed_except("Invalid isoformat string"), <<call>>)
             ELSE Result(Reply(200,
                      [announcements |-> [k \in 1..Len(data) |->
                                             unlicensed_format_announcement(data[k])]]),
                      <<call>>)

\* GET /unlicensedminer/status
unlicensedminer_status ==
    /\ req.pc = "idle"
    /\ \E cookie \in CookieValues, header \in HeaderValues, outcome \in Outcomes :
          /\ <<cookie, header>> \in Credentials
          /\ LET r == get_user_status(application, cookie, header, outcome) IN
             /\ req' = Request("get_user_status", "done", cookie, header,
                               get_user_id(cookie, header), <<>>)
             /\ resp' = r.resp
             /\ calls' = r.calls
    /\ UNCHANGED <<db, now, uuids>>

\* GET /unlicensedminer/application
unlicensedminer_application ==
    /\ req.pc = "idle"
    /\ \E cookie \in CookieValues, header \in HeaderValues, outcome \in Outcomes :
          /\ <<cookie, header>> \in Credentials
          /\ LET r == get_application_details(application, cookie, header, outcome) IN
             /\ req' = Request("get_application_details", "done", cookie, header,
                               get_user_id(cookie, header), <<>>)
             /\ resp' = r.resp
             /\ calls' = r.calls
    /\ UNCHANGED <<db, now, uuids>>

\* GET /unlicensedminer/documents
unlicensedminer_documents ==
    /\ req.pc = "idle"
    /\ \E cookie \in CookieValues, header \in HeaderValues, outcome \in Outcomes :
          /\ <<cookie, header>> \in Credentials
          /\ LET r == get_documents(documents, cookie, header, outcome) IN
             /\ req' = Request("get_documents", "done", cookie, header,
                               get_user_id(cookie, header), <<>>)
             /\ resp' = r.resp
             /\ calls' = r.calls
    /\ UNCHANGED <<db, now, uuids>>

\* GET /unlicensedminer/announcements
unlicensedminer_announcements ==
    /\ req.pc = "idle"
    /\ \E cookie \in CookieValues, header \in HeaderValues, outcome \in Outcomes :
          /\ <<cookie, header>> \in Credentials
          /\ LET r == unlicensed_get_announcements(comments, cookie, header, outcome) IN
             /\ req' = Request("unlicensed_get_announcements", "done", cookie, header,
                               get_user_id(cookie, header), <<>>)
             /\ resp' = r.resp
             /\ calls' = r.calls
    /\ UNCHANGED <<db, now, uuids>>

(***************************************************************************)
(* minerpage.py: GET /miner/license                                        *)
(***************************************************************************)
\* get_license answering 404 for a missing or unparseable active_date
get_license_date_404(table, cookie, header, outcome) ==
    LET user_id == get_user_id(cookie, header) IN
    IF ~Truthy(user_id) THEN Result(Reply(401, [error |-> "User ID not provided"]), <<>>)
    ELSE LET call == Call("select", "users", user_id, outcome)
             user_data == SelectEq(table, "id", user_id)
         IN  IF outcome \in RemoteErrors THEN Result(miner_except(outcome), <<call>>)
             ELSE IF user_data = <<>>
             THEN Result(Reply(404, [error |-> "User not found"]), <<call>>)
             ELSE IF parse_date(user_data[1].active_date) = NoDate
             THEN Result(Reply(404, [error |-> "Invalid or missing active date"]),
                         <<call>>)
             ELSE Result(NoReply, <<call>>)

\* lines 66-85: up to the query of users and the check of active_date.  A
\* result with resp = NoReply goes on to the query of application.
get_license(table, cookie, header, outcome) ==
    LET user_id == get_user_id(cookie, header) IN
    IF ~Truthy(user_id) THEN Result(Reply(401, [error |-> "User ID not provided"]), <<>>)
    ELSE LET call == Call("select", "users", user_id, outcome)
             user_data == SelectEq(table, "id", user_id)
         IN  IF outcome \in RemoteErrors THEN Result(miner_except(outcome), <<call>>)
             ELSE IF user_data = <<>>
             THEN Result(Reply(404, [error |-> "User not found"]), <<call>>)
             ELSE IF parse_date(user_data[1].active_date) = NoDate
             THEN Result(Reply(400, [error |-> "Invalid or missing active date"]),
                         <<call>>)
             ELSE Result(NoReply, <<call>>)

\* lines 100-110: the expiry and the 200 response
license_body(license_status, active_date, app_row) ==
    LET period == app_row.period_of_validity
        years == parse_period(period)
        expiry_date == AddDays(active_date, RoundDays(years))
    IN  IF expiry_date = NoDate THEN miner_except("date value out of range")
        ELSE Reply(200, [license_status |-> license_status,
                         license_number |-> app_row.exploration_license_no,
                         active_date |-> FormatDate(active_date),
                         period_of_validity |-> period,
                         expires |-> FormatDate(expiry_date)])

\* lines 87-114: from the query of application on
get_license_application(table, user_id, user_row, outcome) ==
    LET call == Call("select", "application", user_id, outcome)
        app_data == SelectEq(table, "miner_id", user_id)
    IN  IF outcome \in RemoteErrors THEN Result(miner_except(outcome), <<call>>)
        ELSE IF app_data = <<>>
        THEN Result(Reply(404, [error |-> "No application found"]), <<call>>)
        ELSE Result(license_body(user_row.license_status,
                                 parse_date(user_row.active_date), app_data[1]),
                    <<call>>)

\* GET /miner/license, to the first remote call and what follows it
miner_license ==
    /\ req.pc = "idle"
    /\ \E cookie \in CookieValues, header \in HeaderValues, outcome \in Outcomes :
          /\ <<cookie, header>> \in Credentials
          /\ LET r == get_license(users, cookie, header, outcome)
                 user_id == get_user_id(cookie, header)
             IN  /\ req' = Request("get_license",
                                   IF r.resp = NoReply THEN "application" ELSE "done",
                                   cookie, header, user_id,
                                   IF r.resp = NoReply
                                   THEN SelectEq(users, "id", user_id)[1] ELSE <<>>)
                 /\ resp' = r.resp
                 /\ calls' = r.calls
    /\ UNCHANGED <<db, now, uuids>>

\* GET /miner/license, the query of application and the response
miner_license_application ==
    /\ req.handler = "get_license"
    /\ req.pc = "application"
    /\ \E outcome \in Outcomes :
          LET r == get_license_application(application, req.user_id, req.loc, outcome) IN
          /\ req' = [req EXCEPT !.pc = "done"]
          /\ resp' = r.resp
          /\ calls' = calls \o r.calls
    /\ UNCHANGED <<db, now, uuids>>

(***************************************************************************)
(* unlicensedminer.py: POST /unlicensedminer/upload-document               *)
(***************************************************************************)
\* file names a request may carry
FileNames == {<<"r", ".", "p", "d", "f">>, <<"r", ".", "e", "x", "e">>, <<"p", "d", "f">>}

\* request.files['file'].filename: NoneText when the request has no such part,
\* the empty text when no file was selected
UploadFiles == {NoneText, <<>>} \cup FileNames

\* the except clause of upload_document
upload_document_except(e) == Reply(500, [error |-> e])

\* lines 100-120: up to the upload to storage.  A result with resp = NoReply
\* goes on to get_public_url.
upload_document(cookie, header, filename, k, outcome) ==
    LET user_id == get_user_id(cookie, header) IN
    IF ~Truthy(user_id) THEN Result(Reply(401, [error |-> "Authentication required"]), <<>>)
    ELSE IF filename = NoneText
    THEN Result(Reply(400, [error |-> "No file uploaded"]), <<>>)
    ELSE IF filename = <<>>
    THEN Result(Reply(400, [error |-> "No selected file"]), <<>>)
    ELSE LET unique_filename == UniqueFilename(k, LastPiece(filename))
             call == Call("upload", "documents", unique_filename, outcome)
         IN  IF outcome \in RemoteErrors
             THEN Result(upload_document_except(outcome), <<call>>)
             ELSE Result(NoReply, <<call>>)

\* lines 126-133: the row written to documents
document_data(user_id, filename, description, file_url, clock) ==
    [miner_id |-> user_id,
     document_name |-> filename,
     document_type |-> description,
     document_url |-> file_url,
     upload_date |-> NowIso(clock),
     status |-> "pending_review"]

\* POST /unlicensedminer/upload-document, to the upload and what follows it
unlicensedminer_upload_document ==
    /\ req.pc = "idle"
    /\ Inserted < MaxInserts
    /\ uuids < MaxUuid
    /\ \E cookie \in CookieValues, header \in HeaderValues, filename \in UploadFiles,
          outcome \in Outcomes :
          LET r == upload_document(cookie, header, filename, uuids + 1, outcome)
              unique_filename == UniqueFilename(uuids + 1, LastPiece(filename))
          IN  /\ <<cookie, header>> \in WriterCredentials
              /\ req' = Request("upload_document",
                                IF r.resp = NoReply THEN "get_public_url" ELSE "done",
                                cookie, header, get_user_id(cookie, header),
                                [filename |-> filename, description |-> "deed",
                                 unique_filename |-> IF r.calls = <<>> THEN <<>>
                                                     ELSE unique_filename,
                                 file_url |-> <<>>])
              /\ resp' = r.resp
              /\ calls' = r.calls
              /\ uuids' = IF r.calls = <<>> THEN uuids ELSE uuids + 1
              /\ storage' = IF r.resp = NoReply THEN storage \cup {unique_filename}
                            ELSE storage
    /\ UNCHANGED <<users, application, documents, royalty, comments, contact_data, now>>

\* line 122: get_public_url
unlicensedminer_upload_get_public_url ==
    /\ req.handler = "upload_document"
    /\ req.pc = "get_public_url"
    /\ \E outcome \in Outcomes :
          LET call == Call("get_public_url", "documents", req.loc.unique_filename, outcome)
          IN  /\ calls' = Append(calls, call)
              /\ IF outcome \in RemoteErrors
                 THEN /\ resp' = upload_document_except(outcome)
                      /\ req' = [req EXCEPT !.pc = "done"]
                 ELSE /\ resp' = resp
                      /\ req' = [req EXCEPT !.pc = "insert",
                                     !.loc.file_url = PublicUrl(req.loc.unique_filename)]
    /\ UNCHANGED <<db, now, uuids>>

\* lines 125-144: the insert into documents and the response
unlicensedminer_upload_insert ==
    /\ req.handler = "upload_document"
    /\ req.pc = "insert"
    /\ \E outcome \in Outcomes :
          LET call == Call("insert", "documents", req.user_id, outcome)
              row == document_data(req.user_id, req.loc.filename, req.loc.description,
                                   req.loc.file_url, now)
          IN  /\ calls' = Append(calls, call)
              /\ req' = [req EXCEPT !.pc = "done"]
              /\ IF outcome \in RemoteErrors
                 THEN /\ resp' = upload_document_except(outcome)
                      /\ documents' = documents
                 ELSE /\ resp' = Reply(200, [message |-> "Document uploaded successfully",
                                             document_url |-> req.loc.file_url])
                      /\ documents' = Append(documents, row)
    /\ UNCHANGED <<users, application, royalty, comments, contact_data, storage, now, uuids>>

(***************************************************************************)
(* license.py: POST /license/submit                                        *)
(*                                                                         *)
(* The source abridges three lists with '# ... (rest of your ...)'.  The   *)
(* model takes required_fields and file_fields as written, and has         *)
(* form_data carry, besides miner_id and exploration_license_no, the two   *)
(* other keys required_fields names, read from the request the same way.   *)
(***************************************************************************)
required_fields == <<"exploration_license_no", "applicant_name", "national_id">>

file_fields == <<"articles_of_association", "annual_reports", "licensed_boundary_survey">>

\* data.get(key) / request.form.get(key) for the keys of required_fields: the
\* request carries a value for the keys in present, None for the others
FormValue(present, key) == IF key \in present THEN "x" ELSE None

\* lines 159-171: form_data before the files are handled
initial_form_data(user_id, present) ==
    [miner_id |-> user_id,
     exploration_license_no |-> FormValue(present, "exploration_license_no"),
     applicant_name |-> FormValue(present, "applicant_name"),
     national_id |-> FormValue(present, "national_id"),
     articles_of_association |-> NoneText,
     annual_reports |-> NoneText,
     licensed_boundary_survey |-> NoneText]

\* lines 199-203
missing_fields(form_data) == SelectSeq(required_fields, LAMBDA f : form_data[f] = None)

\* save_file without the check of the extension
save_file_accepts_any(filename) == TruthyText(filename)

\* line 32 (and line 184): the file is there and its extension is allowed
save_file_accepts(filename) == TruthyText(filename) /\ allowed_file(filename)

\* lines 35-37
save_file_unique_filename(filename, k) ==
    UniqueFilename(k, LastPiece(secure_filename(filename)))

\* the except clauses of save_file (lines 53-55, 79-81, 83-85): the file's field is None
save_file_except(e) == NoneText

\* the inner except clause raising again instead of answering
submit_license_db_reraise(e) == Unhandled(e)

\* the inner except clause of submit_license (lines 242-244)
submit_license_db_except(e) == Reply(500, [error |-> "Database operation failed"])

\* the row the database stores for form_data: the columns the request does not
\* set are NULL
application_row(form_data) ==
    [miner_id |-> form_data.miner_id,
     exploration_license_no |-> form_data.exploration_license_no,
     applicant_name |-> form_data.applicant_name,
     national_id |-> form_data.national_id,
     articles_of_association |-> form_data.articles_of_association,
     annual_reports |-> form_data.annual_reports,
     licensed_boundary_survey |-> form_data.licensed_boundary_survey,
     status |-> None,
     period_of_validity |-> NoneText]

\* update_data with the date the server started instead of the current one
update_data_stale(clock) == [license_status |-> "pending", active_date |-> NowIso(0)]

\* lines 225-228
update_data(clock) == [license_status |-> "pending", active_date |-> NowIso(clock)]

\* lines 192-207: the request and response once form_data is complete
validate_required(r, form_data) ==
    IF missing_fields(form_data) # <<>>
    THEN [req |-> [r EXCEPT !.pc = "done", !.loc.form_data = form_data],
          resp |-> Reply(400, [error |-> "Missing or invalid fields",
                               fields |-> missing_fields(form_data)])]
    ELSE [req |-> [r EXCEPT !.pc = "insert", !.loc.form_data = form_data],
          resp |-> NoReply]

\* lines 181-190: the field being handled gets file_path; then the next field,
\* or the validation after the last
after_field(r, file_path) ==
    LET form_data == [r.loc.form_data EXCEPT ![file_fields[r.loc.field]] = file_path] IN
    IF r.loc.field < Len(file_fields)
    THEN [req |-> [r EXCEPT !.pc = "file", !.loc.form_data = form_data,
                            !.loc.field = r.loc.field + 1,
                            !.loc.unique_filename = <<>>],
          resp |-> NoReply]
    ELSE validate_required([r EXCEPT !.loc.unique_filename = <<>>], form_data)

\* lines 137-172: the user id and form_data
submit_license(cookie, header, is_json, present) ==
    LET user_id == PyOr(cookie, header)
        r == Request("submit_license", "file", cookie, header, user_id,
                     [is_json |-> is_json, form_data |-> initial_form_data(user_id, present),
                      field |-> 1, files |-> <<>>, unique_filename |-> <<>>])
    IN  IF ~Truthy(user_id)
        THEN [req |-> [r EXCEPT !.pc = "done"],
              resp |-> Reply(401, [error |-> "User ID not provided"])]
        ELSE IF is_json THEN validate_required(r, r.loc.form_data)
        ELSE [req |-> r, resp |-> NoReply]

\* POST /license/submit, to the first file field
license_submit ==
    /\ req.pc = "idle"
    /\ Inserted < MaxInserts
    /\ \E cookie \in CookieValues, header \in HeaderValues, is_json \in BOOLEAN,
          present \in SUBSET {"exploration_license_no", "applicant_name", "national_id"} :
          LET s == submit_license(cookie, header, is_json, present) IN
          /\ <<cookie, header>> \in WriterCredentials
          /\ req' = s.req
          /\ resp' = s.resp
          /\ calls' = <<>>
    /\ UNCHANGED <<db, now, uuids>>

\* lines 181-190 and save_file to list_buckets (lines 28-55), for one file field
license_submit_file ==
    /\ req.handler = "submit_license"
    /\ req.pc = "file"
    /\ \E filename \in {NoneText} \cup FileNames, outcome \in Outcomes :
          LET r == [req EXCEPT !.loc.files = Append(req.loc.files, filename)] IN
          IF ~save_file_accepts(filename)
          THEN /\ req' = after_field(r, NoneText).req
               /\ resp' = after_field(r, NoneText).resp
               /\ calls' = calls
               /\ uuids' = uuids
          ELSE /\ uuids < MaxUuid
               /\ uuids' = uuids + 1
               /\ calls' = Append(calls, Call("list_buckets", "storage",
                                              file_fields[req.loc.field], outcome))
               /\ IF outcome \in RemoteErrors
                  THEN /\ req' = after_field(r, save_file_except(outcome)).req
                       /\ resp' = after_field(r, save_file_except(outcome)).resp
                  ELSE /\ req' = [r EXCEPT !.pc = "upload",
                                    !.loc.unique_filename =
                                        save_file_unique_filename(filename, uuids + 1)]
                       /\ resp' = resp
    /\ UNCHANGED <<db, now>>

\* save_file, the upload (lines 57-72)
license_submit_upload ==
    /\ req.handler = "submit_license"
    /\ req.pc = "upload"
    /\ \E outcome \in WriteOutcomes :
          /\ calls' = Append(calls, Call("upload", "documents",
                                         file_fields[req.loc.field], outcome))
          /\ IF outcome = "ok"
             THEN /\ storage' = storage \cup {req.loc.unique_filename}
                  /\ req' = [req EXCEPT !.pc = "get_public_url"]
                  /\ resp' = resp
             ELSE /\ storage' = storage
                  /\ req' = after_field(req, save_file_except(outcome)).req
                  /\ resp' = after_field(req, save_file_except(outcome)).resp
    /\ UNCHANGED <<users, application, documents, royalty, comments, contact_data,
                   now, uuids>>

\* save_file, get_public_url (lines 74-78)
license_submit_get_public_url ==
    /\ req.handler = "submit_license"
    /\ req.pc = "get_public_url"
    /\ \E outcome \in Outcomes :
          LET file_path == IF outcome = "ok" THEN PublicUrl(req.loc.unique_filename)
                           ELSE save_file_except(outcome)
          IN  /\ calls' = Append(calls, Call("get_public_url", "documents",
                                             file_fields[req.loc.field], outcome))
              /\ req' = after_field(req, file_path).req
              /\ resp' = after_field(req, file_path).resp
    /\ UNCHANGED <<db, now, uuids>>

\* outcomes of the insert into application: miner_id is a foreign key to
\* users.id (unlicensedminer.py line 35), so a row for an id that users does not
\* hold is refused
InsertOutcomes(user_id) ==
    IF SelectEq(users, "id", user_id) # <<>> THEN WriteOutcomes
    ELSE WriteOutcomes \ {"ok"}

\* lines 209-221: the insert into application
license_submit_insert ==
    /\ req.handler = "submit_license"
    /\ req.pc = "insert"
    /\ \E outcome \in InsertOutcomes(req.user_id) :
          /\ calls' = Append(calls, Call("insert", "application", req.user_id, outcome))
          /\ IF outcome = "ok"
             THEN /\ application' = Append(application, application_row(req.loc.form_data))
                  /\ req' = [req EXCEPT !.pc = "update"]
                  /\ resp' = resp
             ELSE /\ application' = application
                  /\ req' = [req EXCEPT !.pc = "done"]
                  /\ resp' = submit_license_db_except(outcome)
    /\ UNCHANGED <<users, documents, royalty, comments, contact_data, storage, now, uuids>>

\* lines 223-244: the update of users and the response
license_submit_update ==
    /\ req.handler = "submit_license"
    /\ req.pc = "update"
    /\ \E outcome \in Outcomes :
          /\ calls' = Append(calls, Call("update", "users", req.user_id, outcome))
          /\ req' = [req EXCEPT !.pc = "done"]
          /\ IF outcome = "ok"
             THEN /\ users' = UpdateUsers(users, req.user_id, update_data(now))
                  /\ resp' = Reply(201, [message |-> "License submitted successfully!",
                                         data |-> <<application_row(req.loc.form_data)>>,
                                         user_id |-> req.user_id])
             ELSE /\ users' = users
                  /\ resp' = submit_license_db_except(outcome)
    /\ UNCHANGED <<application, documents, royalty, comments, contact_data, storage,
                   now, uuids>>

(***************************************************************************)
(* The framework and the clock                                             *)
(***************************************************************************)
\* the response is sent; the next request can be taken
send_response ==
    /\ req.pc = "done"
    /\ req' = Idle
    /\ resp' = NoReply
    /\ calls' = <<>>
    /\ UNCHANGED <<db, now, uuids>>



(***************************************************************************)
(* Pieces of text                                                          *)
(***************************************************************************)
\* the pieces the arguments of the helper functions are made of
Tok ==
    [TCOMMA |-> <<",">>,
     TUSD |-> <<"u", "s", "d">>,
     TDOLLAR |-> <<"$">>,
     TTONSDAY |-> <<"t", "o", "n", "s", "/", "d", "a", "y">>,
     TM |-> <<"m">>,
     TPERCENT |-> <<"%">>,
     TYEAR |-> <<"y", "e", "a", "r">>,
     T18 |-> <<"1", "8">>,
     T2 |-> <<"2">>,
     T5 |-> <<"5">>,
     T0 |-> <<"0">>,
     TSPACE |-> <<" ">>,
     TMONTHS |-> <<"m", "o", "n", "t", "h", "s">>,
     TMONTHCAP |-> <<"M", "o", "n", "t", "h">>,
     TYEARS |-> <<"y", "e", "a", "r", "s">>,
     TX |-> <<"x">>,
     TPOINT5 |-> <<".", "5">>,
     TUSDCAP |-> <<"U", "S", "D">>,
     TMINUS |-> <<"-">>,
     T2024 |-> <<"2", "0", "2", "4", "-">>,
     T2023 |-> <<"2", "0", "2", "3", "-">>,
     T02 |-> <<"0", "2", "-">>,
     T5D |-> <<"5", "-">>,
     T13 |-> <<"1", "3", "-">>,
     T29 |-> <<"2", "9">>,
     T30 |-> <<"3", "0">>,
     TS1 |-> <<" ", "1">>,
     TT |-> <<"T">>,
     TMIDNIGHTZ |-> <<"0", "0", ":", "0", "0", ":", "0", "0", "Z">>,
     TNOTADATE |-> <<"n", "o", "t", "-", "a", "-", "d", "a", "t", "e">>]


(***************************************************************************)
(* license.py: clean_numeric_value                                         *)
(***************************************************************************)
\* A float as the fraction num / den, den a power of ten; NoNumber stands for
\* the None that clean_numeric_value returns.
Number(num, den) == [num |-> num, den |-> den]

NoNumber == Number(0, 0)

\* the argument of clean_numeric_value: None, an int or a float (text: its
\* decimal digits), a string, or a value of another type
Value(type, text) == [type |-> type, text |-> text]

\* s.replace(old, '')
RECURSIVE Remove(_, _)
Remove(s, old) ==
    IF Len(s) < Len(old) THEN s
    ELSE IF SubSeq(s, 1, Len(old)) = old
         THEN Remove(SubSeq(s, Len(old) + 1, Len(s)), old)
    ELSE <<s[1]>> \o Remove(Tail(s), old)

\* s.strip()
Strip(s) ==
    IF \A i \in 1..Len(s) : s[i] = " " THEN <<>>
    ELSE SubSeq(s,
                CHOOSE i \in 1..Len(s) : s[i] # " " /\ \A j \in 1..(i - 1) : s[j] = " ",
                CHOOSE i \in 1..Len(s) : s[i] # " " /\ \A j \in (i + 1)..Len(s) : s[j] = " ")

IsNumberChar(c) == IsDigit(c) \/ c = "."

\* re.search(r'[\d.]+', s).group(), <<>> when there is no match
FirstNumberRun(s) ==
    IF \E i \in 1..Len(s) : IsNumberChar(s[i])
    THEN LET b == CHOOSE i \in 1..Len(s) :
                      IsNumberChar(s[i]) /\ \A j \in 1..(i - 1) : ~IsNumberChar(s[j])
             e == CHOOSE k \in b..Len(s) :
                      /\ \A j \in b..k : IsNumberChar(s[j])
                      /\ (k = Len(s) \/ ~IsNumberChar(s[k + 1]))
         IN  SubSeq(s, b, e)
    ELSE <<>>

RECURSIVE Pow10(_)
Pow10(k) == IF k = 0 THEN 1 ELSE 10 * Pow10(k - 1)

\* float(run) of a run of digits and points; NoNumber stands for the ValueError
FloatOf(run) ==
    LET points == {i \in 1..Len(run) : run[i] = "."}
    IN  IF Cardinality(points) > 1 \/ \A i \in 1..Len(run) : ~IsDigit(run[i])
        THEN NoNumber
        ELSE Number(IntOf(SelectSeq(run, IsDigit)),
                    IF points = {} THEN 1
                    ELSE Pow10(Len(run) - (CHOOSE i \in points : TRUE)))

\* the least int that float() does not take (it rounds past the largest float):
\* 2^1024 - 2^970, in decimal
IntFloatLimit ==
    <<
      "1", "7", "9", "7", "6", "9", "3", "1", "3", "4", "8", "6", "2", "3",
      "1", "5", "8", "0", "7", "9", "3", "7", "2", "8", "9", "7", "1", "4",
      "0", "5", "3", "0", "3", "4", "1", "5", "0", "7", "9", "9", "3", "4",
      "1", "3", "2", "7", "1", "0", "0", "3", "7", "8", "2", "6", "9", "3",
      "6", "1", "7", "3", "7", "7", "8", "9", "8", "0", "4", "4", "4", "9",
      "6", "8", "2", "9", "2", "7", "6", "4", "7", "5", "0", "9", "4", "6",
      "6", "4", "9", "0", "1", "7", "9", "7", "7", "5", "8", "7", "2", "0",
      "7", "0", "9", "6", "3", "3", "0", "2", "8", "6", "4", "1", "6", "6",
      "9", "2", "8", "8", "7", "9", "1", "0", "9", "4", "6", "5", "5", "5",
      "5", "4", "7", "8", "5", "1", "9", "4", "0", "4", "0", "2", "6", "3",
      "0", "6", "5", "7", "4", "8", "8", "6", "7", "1", "5", "0", "5", "8",
      "2", "0", "6", "8", "1", "9", "0", "8", "9", "0", "2", "0", "0", "0",
      "7", "0", "8", "3", "8", "3", "6", "7", "6", "2", "7", "3", "8", "5",
      "4", "8", "4", "5", "8", "1", "7", "7", "1", "1", "5", "3", "1", "7",
      "6", "4", "4", "7", "5", "7", "3", "0", "2", "7", "0", "0", "6", "9",
      "8", "5", "5", "5", "7", "1", "3", "6", "6", "9", "5", "9", "6", "2",
      "2", "8", "4", "2", "9", "1", "4", "8", "1", "9", "8", "6", "0", "8",
      "3", "4", "9", "3", "6", "4", "7", "5", "2", "9", "2", "7", "1", "9",
      "0", "7", "4", "1", "6", "8", "4", "4", "4", "3", "6", "5", "5", "1",
      "0", "7", "0", "4", "3", "4", "2", "7", "1", "1", "5", "5", "9", "6",
      "9", "9", "5", "0", "8", "0", "9", "3", "0", "4", "2", "8", "8", "0",
      "1", "7", "7", "9", "0", "4", "1", "7", "4", "4", "9", "7", "7", "9",
      "2">>

\* the substrings removed from the lower-cased string, in this order
Stripped == <<Tok.TCOMMA, Tok.TUSD, Tok.TDOLLAR, Tok.TTONSDAY, Tok.TM, Tok.TPERCENT, Tok.TYEARS, Tok.TYEAR>>

RECURSIVE RemoveAll(_, _)
RemoveAll(s, olds) ==
    IF olds = <<>> THEN s ELSE RemoveAll(Remove(s, Head(olds)), Tail(olds))

clean_numeric_value(value) ==
    IF value.type = "NoneType" THEN Return(NoNumber)
    ELSE IF value.type \in {"int", "float"}
    THEN IF value.type = "int" /\ AtLeast(value.text, IntFloatLimit)
         THEN Unhandled("OverflowError: int too large to convert to float")
         ELSE Return(FloatOf(value.text))
    ELSE IF value.type = "str"
    THEN LET cleaned == Strip(RemoveAll(Strip(LowerText(value.text)), Stripped))
             number_match == FirstNumberRun(cleaned)
         IN  IF number_match # <<>> THEN Return(FloatOf(number_match))
             ELSE Return(NoNumber)
    ELSE Return(NoNumber)

(***************************************************************************)
(* Initial state: what the tables hold before the first request            *)
(***************************************************************************)
D_2024_01_01 == <<"2", "0", "2", "4", "-", "0", "1", "-", "0", "1">>
D_2024_05_01 == <<"2", "0", "2", "4", "-", "0", "5", "-", "0", "1">>
T_midnight == <<"T", "0", "0", ":", "0", "0", ":", "0", "0">>

\* the days, counted from Epoch, on which the requests may arrive
ClockDays == {0, 1}

Init ==
    /\ users = <<[id |-> "u1", license_status |-> "approved",
                  active_date |-> D_2024_01_01],
                 [id |-> "u2", license_status |-> "none", active_date |-> NoneText],
                 [id |-> "u4", license_status |-> "approved",
                  active_date |-> D_2024_05_01 \o T_midnight],
                 [id |-> "u5", license_status |-> "approved",
                  active_date |-> D_2024_05_01],
                 [id |-> "u6", license_status |-> "pending",
                  active_date |-> <<"2", "0", "2", "3", "-", "0", "2", "-", "2", "9">>]>>
    /\ application = InitialApplications
    /\ documents = <<>>
    /\ royalty = <<[miner_id |-> "u1", total_amount |-> 1500],
                   [miner_id |-> "u4", total_amount |-> 40]>>
    /\ comments = <<[miner_id |-> "u1", text |-> "inspection due",
                     created_at |-> D_2024_01_01 \o T_midnight],
                    [miner_id |-> "u4", text |-> "welcome",
                     created_at |-> <<"n", "o", "t", "-", "a", "-", "d", "a", "t", "e">>],
                    [miner_id |-> "u1", text |-> "fee received",
                     created_at |-> D_2024_05_01 \o T_midnight],
                    [miner_id |-> "u1", text |-> "draft", created_at |-> NoneText]>>
    /\ contact_data = <<>>
    /\ storage = {}
    /\ now \in ClockDays
    /\ uuids = 0
    /\ req = Idle
    /\ resp = NoReply
    /\ calls = <<>>

Next ==
    \/ contact_submit
    \/ contact_get
    \/ license_submit
    \/ license_submit_file
    \/ license_submit_upload
    \/ license_submit_get_public_url
    \/ license_submit_insert
    \/ license_submit_update
    \/ license_get
    \/ miner_license
    \/ miner_license_application
    \/ miner_royalty
    \/ miner_announcements
    \/ unlicensedminer_status
    \/ unlicensedminer_application
    \/ unlicensedminer_documents
    \/ unlicensedminer_upload_document
    \/ unlicensedminer_upload_get_public_url
    \/ unlicensedminer_upload_insert
    \/ unlicensedminer_announcements
    \/ send_response

Spec == Init /\ [][Next]_vars

(***************************************************************************)
(* The helper functions called on their own: parse_period, parse_date and  *)
(* clean_numeric_value applied to one argument                             *)
(***************************************************************************)
\* the texts made of at most n of the tokens, one after the other
RECURSIVE Texts(_, _)
Texts(tokens, n) ==
    IF n = 0 THEN {<<>>}
    ELSE LET shorter == Texts(tokens, n - 1)
         IN  shorter \cup {tok \o text : tok \in tokens, text \in shorter}

\* the pieces the period texts are made of
PeriodTokens == {Tok.T18, Tok.T2, Tok.T5, Tok.T0, Tok.TSPACE, Tok.TMONTHS, Tok.TMONTHCAP, Tok.TYEARS, Tok.TX}

\* a number of more digits than any float has, in months
HugePeriods ==
    {[i \in 1..(Len(TrueDivLimit) + 1) |-> "9"] \o Tok.TMONTHS, TrueDivLimit \o Tok.TMONTHS}

\* the arguments parse_period is applied to
PeriodInputs == Texts(PeriodTokens, MaxTokens) \cup HugePeriods \cup {NoneText}

\* the pieces the date texts are made of, and what may follow them
DateTokens == {Tok.T2024, Tok.T2023, Tok.T02, Tok.T5D, Tok.T13, Tok.T29, Tok.T30, Tok.TS1, Tok.TT, Tok.TX}

DateSuffixes == {<<>>, Tok.TT, Tok.TT \o Tok.TMIDNIGHTZ}

\* the arguments parse_date is applied to
DateInputs ==
    {head \o suffix : head \in Texts(DateTokens, MaxTokens), suffix \in DateSuffixes}
        \cup {NoneText, Tok.TNOTADATE}

\* the pieces the strings given to clean_numeric_value are made of
NumericTokens == {Tok.T18, Tok.TPOINT5, Tok.T0, Tok.TCOMMA, Tok.TUSDCAP, Tok.TDOLLAR, Tok.TTONSDAY, Tok.TM, Tok.TPERCENT,
                  Tok.TYEARS, Tok.TYEAR, Tok.TSPACE, Tok.TX, Tok.TMINUS}

\* the arguments clean_numeric_value is applied to: strings, None, ints (one
\* of them the least that float() does not take), a float and a list
NumericInputs ==
    {Value("str", text) : text \in Texts(NumericTokens, MaxTokens)}
        \cup {Value("NoneType", <<>>), Value("int", Tok.T18), Value("int", IntFloatLimit),
              Value("float", Tok.T18 \o Tok.TPOINT5), Value("list", <<>>)}

\* a call of a helper function on argument: req holds the call, resp the result
PureCall(function, argument) == Request(function, "call", None, None, None, argument)

Returned(function) == req.handler = function /\ req.pc = "return"

apply_parse_period ==
    /\ req.handler = "parse_period"
    /\ req.pc = "call"
    /\ req' = [req EXCEPT !.pc = "return"]
    /\ resp' = Return(parse_period(req.loc))
    /\ UNCHANGED <<db, now, uuids, calls>>

apply_parse_date ==
    /\ req.handler = "parse_date"
    /\ req.pc = "call"
    /\ req' = [req EXCEPT !.pc = "return"]
    /\ resp' = Return(parse_date(req.loc))
    /\ UNCHANGED <<db, now, uuids, calls>>

apply_clean_numeric_value ==
    /\ req.handler = "clean_numeric_value"
    /\ req.pc = "call"
    /\ req' = [req EXCEPT !.pc = "return"]
    /\ resp' = clean_numeric_value(req.loc)
    /\ UNCHANGED <<db, now, uuids, calls>>

InitPure ==
    /\ users = <<>>
    /\ application = <<>>
    /\ documents = <<>>
    /\ royalty = <<>>
    /\ comments = <<>>
    /\ contact_data = <<>>
    /\ storage = {}
    /\ now = 0
    /\ uuids = 0
    /\ req \in {PureCall("parse_period", x) : x \in PeriodInputs}
               \cup {PureCall("parse_date", x) : x \in DateInputs}
               \cup {PureCall("clean_numeric_value", x) : x \in NumericInputs}
    /\ resp = NoReply
    /\ calls = <<>>

NextPure ==
    \/ apply_parse_period
    \/ apply_parse_date
    \/ apply_clean_numeric_value

SpecPure == InitPure /\ [][NextPure]_vars

(***************************************************************************)
(* Properties                                                              *)
(***************************************************************************)
\* the request has been answered
Done == req.pc = "done"

\* every remote call of the request succeeded
NoCallFailed == \A i \in 1..Len(calls) : calls[i].outcome = "ok"

\* the handlers of /miner/* and /unlicensedminer/*
MinerHandlers == {"get_license", "get_royalty", "miner_get_announcements",
                  "get_user_status", "get_application_details", "get_documents",
                  "upload_document", "unlicensed_get_announcements"}

\* the request carries neither a non-empty cookie userId nor a non-empty X-User-ID
NoIdentity == req.cookie \in {None, ""} /\ req.header \in {None, ""}

\* C1: a request to a /miner/* or /unlicensedminer/* endpoint that carries no
\* identifier is answered 401 and no remote call is issued for it.
C1_NoIdentityIs401 ==
    (req.handler \in MinerHandlers /\ NoIdentity)
        => (Done /\ resp.status = 401 /\ calls = <<>>)

C1_Witness ==
    /\ req.handler = "upload_document"
    /\ req.cookie = ""
    /\ req.header = None
    /\ resp.status = 401

\* a JSON object in which name, email or message is absent or empty
IncompleteContact(data) ==
    data.object /\ (data.name \in {None, ""} \/ data.email \in {None, ""}
                    \/ data.message \in {None, ""})

\* C2: POST /contact/submit with an object payload lacking name, email or
\* message answers 400 with an error body, issues no insert and leaves
\* contact_data as it was.
C2_IncompleteContactRejected ==
    [][(req'.handler = "submit_contact" /\ req'.pc = "done" /\ req.pc = "idle"
        /\ IncompleteContact(req'.loc))
          => (/\ resp'.status = 400
              /\ "error" \in DOMAIN resp'.body
              /\ calls' = <<>>
              /\ contact_data' = contact_data)]_vars

C2_Witness ==
    /\ req.handler = "submit_contact"
    /\ Done
    /\ req.loc.object
    /\ req.loc.name = "x" /\ req.loc.email = None /\ req.loc.message = "x"
    /\ resp.status = 400

\* the file has a name whose extension is one of pdf, png, jpg, jpeg
HasAllowedExtension(filename) ==
    \E e \in {<<"p", "d", "f">>, <<"p", "n", "g">>, <<"j", "p", "g">>,
              <<"j", "p", "e", "g">>} :
        /\ Len(filename) > Len(e)
        /\ SubSeq(LowerText(filename), Len(filename) - Len(e), Len(filename))
               = <<".">> \o e

\* a file was sent and its extension is not allowed
Disallowed(filename) ==
    filename # NoneText /\ filename # <<>> /\ ~HasAllowedExtension(filename)

\* the request's insert has succeeded
InsertedBy(table) ==
    \E i \in 1..Len(calls) :
        calls[i].op = "insert" /\ calls[i].target = table /\ calls[i].outcome = "ok"

\* C3, the license flow: no storage call is issued for a file with a disallowed
\* extension, its field of form_data is None, and so is that field of the row
\* the request inserts.
C3_LicenseRejects ==
    req.handler = "submit_license" =>
        \A i \in 1..Len(req.loc.files) :
            (Disallowed(req.loc.files[i]) /\ (i < req.loc.field \/ req.pc # "file")) =>
                /\ \A k \in 1..Len(calls) :
                       ~(calls[k].target \in {"storage", "documents"}
                         /\ calls[k].subject = file_fields[i])
                /\ req.loc.form_data[file_fields[i]] = NoneText
                /\ InsertedBy("application")
                       => application[Len(application)][file_fields[i]] = NoneText

\* C3, the unlicensed-miner flow: the same file, sent by an identified caller
\* with no remote call failing, is stored in the bucket and recorded in
\* documents with status pending_review.
C3_UnlicensedAccepts ==
    (/\ req.handler = "upload_document"
     /\ Done
     /\ Truthy(req.user_id)
     /\ Disallowed(req.loc.filename)
     /\ NoCallFailed)
        => /\ resp.status = 200
           /\ req.loc.unique_filename \in storage
           /\ \E k \in 1..Len(documents) :
                  /\ documents[k].document_name = req.loc.filename
                  /\ documents[k].status = "pending_review"
                  /\ documents[k].document_url = resp.body.document_url
                  /\ documents[k].miner_id = req.user_id

\* C3: a file with a disallowed extension is rejected by the license flow and
\* accepted by POST /unlicensedminer/upload-document.
C3_ExtensionCheckedInLicenseFlowOnly == C3_LicenseRejects /\ C3_UnlicensedAccepts

C3_Witness ==
    /\ req.handler = "upload_document"
    /\ Done
    /\ req.loc.filename = <<"r", ".", "e", "x", "e">>
    /\ resp.status = 200
    /\ Len(documents) > 0

\* the case C3 states for the license flow: a request that sent r.exe and whose
\* row was inserted
C3_LicenseCaseReached ==
    /\ req.handler = "submit_license"
    /\ Done
    /\ resp.status = 201
    /\ \E i \in 1..Len(req.loc.files) : req.loc.files[i] = <<"r", ".", "e", "x", "e">>

\* GET /miner/license has answered 200 for a user whose active_date is
\* 2024-01-01 and whose application has period_of_validity "2 years"
C4_Case ==
    /\ req.handler = "get_license"
    /\ Done
    /\ resp.status = 200
    /\ req.loc.active_date = D_2024_01_01
    /\ resp.body.period_of_validity = <<"2", " ", "y", "e", "a", "r", "s">>

\* C4 as stated: for active_date 2024-01-01 and period "2 years", expires is
\* 2026-01-01.
C4_Expires_2026_01_01 ==
    C4_Case => resp.body.expires = <<"2", "0", "2", "6", "-", "0", "1", "-", "0", "1">>

\* C4 as amended: for active_date 2024-01-01 and period "2 years", expires is
\* 2025-12-31, the 730th day after 2024-01-01 (2024 has 366 days).
C4_Expires_2025_12_31 ==
    C4_Case => resp.body.expires = <<"2", "0", "2", "5", "-", "1", "2", "-", "3", "1">>

C4_Witness == C4_Case /\ req.user_id = "u1"

HttpStatuses == {200, 201, 400, 401, 404, 500}

C6_GenericErrorBody ==
    (Done /\ resp.status = 500 /\ ~NoCallFailed) => resp.body.error \notin RemoteErrors

C8_SubmittedMeansPending ==
    (req.handler = "submit_license" /\ Done /\ resp.status = 201)
        => /\ InsertedBy("application")
           /\ application[Len(application)].miner_id = req.user_id
           /\ \E i \in 1..Len(users) : users[i].id = req.user_id
           /\ \A i \in 1..Len(users) :
                  users[i].id = req.user_id
                      => /\ users[i].license_status = "pending"
                         /\ Len(users[i].active_date) >= 10
                         /\ SubSeq(users[i].active_date, 1, 10) = FormatDate(Today(now))

C8_Witness ==
    /\ req.handler = "submit_license"
    /\ Done
    /\ resp.status = 201
    /\ req.user_id = "u2"
    /\ now = 1

\* the rows of table whose column holds id
OwnRows(table, column, id) == SelectSeq(table, LAMBDA r : r[column] = id)

\* table with a row of another id put first
WithAddedRow(table, column) ==
    IF table = <<>> THEN table
    ELSE <<[table[1] EXCEPT ![column] = "intruder"]>> \o table

\* table with the content of every row of another id replaced
WithChangedRows(table, column, id) ==
    [i \in 1..Len(table) |->
        IF table[i][column] = id THEN table[i]
        ELSE [table[Len(table) + 1 - i] EXCEPT ![column] = table[i][column]]]

\* table after removing, adding or changing rows of ids other than id
Variants(table, column, id) ==
    {OwnRows(table, column, id), WithAddedRow(table, column),
     WithChangedRows(table, column, id)}

\* the outcome of the request's k-th remote call
OutcomeOf(k) == IF k <= Len(calls) THEN calls[k].outcome ELSE "ok"

\* the response of the read handler that has answered, had it run on tables t
\* (for users and application: tu and ta)
C9_SameOnVariant(tu, ta, t) ==
    CASE req.handler = "get_licenses" ->
             get_licenses(ta, req.cookie, req.header, OutcomeOf(1)).resp = resp
      [] req.handler = "get_royalty" ->
             get_royalty(t, req.cookie, req.header, OutcomeOf(1)).resp = resp
      [] req.handler = "miner_get_announcements" ->
             miner_get_announcements(t, req.cookie, req.header, OutcomeOf(1)).resp = resp
      [] req.handler = "get_user_status" ->
             get_user_status(ta, req.cookie, req.header, OutcomeOf(1)).resp = resp
      [] req.handler = "get_application_details" ->
             get_application_details(ta, req.cookie, req.header, OutcomeOf(1)).resp = resp
      [] req.handler = "get_documents" ->
             get_documents(t, req.cookie, req.header, OutcomeOf(1)).resp = resp
      [] req.handler = "unlicensed_get_announcements" ->
             unlicensed_get_announcements(t, req.cookie, req.header, OutcomeOf(1)).resp
                 = resp
      [] req.handler = "get_license" ->
             LET first == get_license(tu, req.cookie, req.header, OutcomeOf(1)) IN
             IF Len(calls) < 2 THEN first.resp = resp
             ELSE /\ first.resp = NoReply
                  /\ get_license_application(ta, req.user_id,
                                             OwnRows(tu, "id", req.user_id)[1],
                                             OutcomeOf(2)).resp = resp
      [] OTHER -> TRUE

\* the table a read handler queries besides users and application
C9_Table ==
    CASE req.handler = "get_royalty" -> royalty
      [] req.handler \in {"miner_get_announcements", "unlicensed_get_announcements"} -> comments
      [] OTHER -> documents

\* C9: the response of every read endpoint called with id u is the one the
\* handler gives after rows of other ids are removed, added or changed, and
\* the row that /license/submit or /unlicensedminer/upload-document inserts
\* has miner_id u.
C9_ScopedByCallerId ==
    /\ (Done /\ Truthy(req.user_id)) =>
           \A tu \in Variants(users, "id", req.user_id) :
               \A ta \in Variants(application, "miner_id", req.user_id) :
                   \A t \in Variants(C9_Table, "miner_id", req.user_id) :
                       C9_SameOnVariant(tu, ta, t)
    /\ (req.handler = "submit_license" /\ InsertedBy("application"))
           => application[Len(application)].miner_id = req.user_id
    /\ (req.handler = "upload_document" /\ InsertedBy("documents"))
           => documents[Len(documents)].miner_id = req.user_id

C9_Witness ==
    /\ req.handler = "get_royalty"
    /\ Done
    /\ req.user_id = "u4"
    /\ resp.status = 200
    /\ \E i \in 1..Len(royalty) : royalty[i].miner_id # "u4"

\* GET /miner/license has answered a request with a user id, no remote call
\* having failed
C10_Case == req.handler = "get_license" /\ Done /\ Truthy(req.user_id) /\ NoCallFailed

C10_UserRows == OwnRows(users, "id", req.user_id)

C10_ApplicationRows == OwnRows(application, "miner_id", req.user_id)

\* the 200 response of GET /miner/license
C10_Is200 ==
    /\ resp.status = 200
    /\ DOMAIN resp.body = {"license_status", "license_number", "active_date",
                           "period_of_validity", "expires"}
    /\ resp.body.license_status = C10_UserRows[1].license_status
    /\ resp.body.license_number = C10_ApplicationRows[1].exploration_license_no

\* the expiry date lies past 9999-12-31, the last date Python represents
C10_ExpiryOutOfRange ==
    ToOrdinal(parse_date(C10_UserRows[1].active_date))
        + RoundDays(parse_period(C10_ApplicationRows[1].period_of_validity)) > MaxOrdinal

\* C10 as stated: 404 without a users row; else 400 for a missing or
\* unparseable active_date, before application is queried; else 404 without an
\* application row; else 200.
C10_StatusByCase ==
    C10_Case =>
        IF C10_UserRows = <<>> THEN resp.status = 404
        ELSE IF parse_date(C10_UserRows[1].active_date) = NoDate
        THEN resp.status = 400 /\ \A k \in 1..Len(calls) : calls[k].target # "application"
        ELSE IF C10_ApplicationRows = <<>> THEN resp.status = 404
        ELSE C10_Is200

\* C10 as amended: as stated, but the last case answers 200 only when the
\* expiry date is no later than 9999-12-31, and 500 otherwise.
C10_StatusByCaseInRange ==
    C10_Case =>
        IF C10_UserRows = <<>> THEN resp.status = 404
        ELSE IF parse_date(C10_UserRows[1].active_date) = NoDate
        THEN resp.status = 400 /\ \A k \in 1..Len(calls) : calls[k].target # "application"
        ELSE IF C10_ApplicationRows = <<>> THEN resp.status = 404
        ELSE IF C10_ExpiryOutOfRange THEN resp.status = 500
        ELSE C10_Is200

C10_Witness ==
    /\ C10_Case
    /\ req.user_id = "u6"
    /\ resp.status = 400
    /\ Len(calls) = 1

\* C11: GET /contact/get answers 200 with the rows of contact_data whenever the
\* read succeeds, an empty table included, and 500 only when the read fails.
C11_ReadSucceedsIs200 ==
    (req.handler = "get_contacts" /\ Done)
        => /\ NoCallFailed => (resp.status = 200 /\ resp.body = contact_data)
           /\ resp.status = 500 => ~NoCallFailed


\* text[b..e] is the first run of decimal digits of text
FirstRun(text, b, e) ==
    /\ b <= e
    /\ \A j \in 1..e : IsDigit(text[j]) <=> j >= b
    /\ e = Len(text) \/ ~IsDigit(text[e + 1])

\* the fraction y is the number written by the digits of run, over den
IsNumberOver(y, run, den) ==
    /\ y.den = den
    /\ ZeroPad(y.num, 1) = (IF StripZeros(run) = <<>> THEN <<"0">> ELSE StripZeros(run))

\* what parse_period returns for period_str is y, as the rule has it: 1 without
\* a digit, n / 12 with 'month', n otherwise, n being the first run of digits;
\* with onError, a quotient beyond the floats gives 1
PeriodRule(period_str, y, onError) ==
    LET text == LowerText(PyStr(period_str)) IN
    /\ (\A j \in 1..Len(text) : ~IsDigit(text[j])) => y = Years(1, 1)
    /\ \A b \in 1..Len(text) :
          (IsDigit(text[b]) /\ \A j \in 1..(b - 1) : ~IsDigit(text[j])) =>
             \A e \in b..Len(text) :
                FirstRun(text, b, e) =>
                   IF Contains(text, <<"m", "o", "n", "t", "h">>)
                   THEN IF onError /\ TrueDivOverflows(SubSeq(text, b, e))
                        THEN y = Years(1, 1)
                        ELSE IsNumberOver(y, SubSeq(text, b, e), 12)
                   ELSE IsNumberOver(y, SubSeq(text, b, e), 1)

\* "18 months" -> 1.5, "2 years" -> 2, "5" -> 5, "" -> 1
PeriodExamples(period_str, y) ==
    /\ period_str = Tok.T18 \o Tok.TSPACE \o Tok.TMONTHS => 2 * y.num = 3 * y.den
    /\ period_str = Tok.T2 \o Tok.TSPACE \o Tok.TYEARS => y.num = 2 * y.den
    /\ period_str = Tok.T5 => y.num = 5 * y.den
    /\ period_str = <<>> => y.num = y.den

\* C12 as stated: parse_period returns, for every argument, n / 12 if the
\* lower-cased text contains 'month' and otherwise n, n being its first run of
\* digits, and 1 if it has no digit; the four examples give 1.5, 2, 5 and 1.
C12_PeriodRule ==
    Returned("parse_period")
        => PeriodRule(req.loc, resp.body, FALSE) /\ PeriodExamples(req.loc, resp.body)

\* C12, amended: as stated, except that a text with 'month' whose n / 12 is
\* beyond the floats (the division raises and the except returns) gives 1.
C12_PeriodRuleOrDefault ==
    Returned("parse_period")
        => PeriodRule(req.loc, resp.body, TRUE) /\ PeriodExamples(req.loc, resp.body)

C12_Witness ==
    /\ Returned("parse_period")
    /\ req.loc = Tok.T18 \o Tok.TSPACE \o Tok.TMONTHCAP
    /\ resp.body = Years(18, 12)


\* d is a calendar date
IsCalendarDate(d) ==
    /\ d.year \in 1..9999
    /\ d.month \in 1..12
    /\ d.day \in 1..DaysInMonth(d.year, d.month)

\* text is a valid calendar date written YYYY-MM-DD
IsIsoDate(text) ==
    /\ Len(text) = 10
    /\ text[5] = "-" /\ text[8] = "-"
    /\ \A i \in {1, 2, 3, 4, 6, 7, 9, 10} : IsDigit(text[i])
    /\ IsCalendarDate([year |-> IntOf(SubSeq(text, 1, 4)),
                       month |-> IntOf(SubSeq(text, 6, 7)),
                       day |-> IntOf(SubSeq(text, 9, 10))])

\* text is d written YYYY-MM-DD, alone or followed by 'T' and anything
IsIsoDateOrTimestamp(text) ==
    /\ Len(text) >= 10
    /\ IsIsoDate(SubSeq(text, 1, 10))
    /\ Len(text) = 10 \/ text[11] = "T"

\* the part of text before its first 'T'
BeforeT(text) ==
    IF \E i \in 1..Len(text) : text[i] = "T"
    THEN SubSeq(text, 1, (CHOOSE i \in 1..Len(text) :
                              text[i] = "T" /\ \A j \in 1..(i - 1) : text[j] # "T") - 1)
    ELSE text

\* the ways '%Y-%m-%d' lets the date d be written
Writings(d) ==
    {ZeroPad(d.year, 4) \o <<"-">> \o m \o <<"-">> \o day :
        m \in {ZeroPad(d.month, 1), ZeroPad(d.month, 2)},
        day \in {ZeroPad(d.day, 1), ZeroPad(d.day, 2), <<" ">> \o ZeroPad(d.day, 1)}}

\* parse_date of a date written YYYY-MM-DD, with or without 'T' and a suffix,
\* is that date; parse_date(None) is None
DateRule(date_str, r) ==
    /\ (date_str # NoneText /\ IsIsoDateOrTimestamp(date_str))
          => r = [year |-> IntOf(SubSeq(date_str, 1, 4)),
                  month |-> IntOf(SubSeq(date_str, 6, 7)),
                  day |-> IntOf(SubSeq(date_str, 9, 10))]
    /\ date_str = NoneText => r = NoDate

\* C13 as stated: parse_date(d + 'T' + t) = parse_date(d) = d for every valid
\* date d written YYYY-MM-DD, parse_date(None) is None, and every string in
\* neither format yields None.
C13_DateRuleStrict ==
    Returned("parse_date")
        => /\ DateRule(req.loc, resp.body)
           /\ resp.body # NoDate => IsIsoDateOrTimestamp(req.loc)

\* C13, amended: as stated, except that the strings yielding a date are those
\* whose part before the first 'T' writes a calendar date as '%Y-%m-%d' reads
\* it: month and day of one or two digits, the day also as a space and a digit.
C13_DateRuleAsStrptime ==
    Returned("parse_date")
        => /\ DateRule(req.loc, resp.body)
           /\ resp.body # NoDate
                 => IsCalendarDate(resp.body) /\ BeforeT(req.loc) \in Writings(resp.body)

C13_Witness ==
    /\ Returned("parse_date")
    /\ req.loc = Tok.T2024 \o Tok.T02 \o Tok.T29 \o Tok.TT \o Tok.TMIDNIGHTZ
    /\ resp.body = [year |-> 2024, month |-> 2, day |-> 29]

\* a date is read from a text with a one-digit month
C13_UnpaddedRead ==
    /\ Returned("parse_date")
    /\ req.loc = Tok.T2024 \o Tok.T5D \o Tok.TS1
    /\ resp.body = [year |-> 2024, month |-> 5, day |-> 1]


\* the tokens of the stripped set, and the space
UnitTokens == {Tok.TCOMMA, Tok.TUSD, Tok.TDOLLAR, Tok.TTONSDAY, Tok.TM, Tok.TPERCENT, Tok.TYEARS, Tok.TYEAR, Tok.TSPACE}

\* text is made of tokens of the stripped set and spaces
RECURSIVE IsTokens(_)
IsTokens(text) ==
    \/ text = <<>>
    \/ \E tok \in UnitTokens :
          /\ Len(tok) <= Len(text)
          /\ SubSeq(text, 1, Len(tok)) = tok
          /\ IsTokens(SubSeq(text, Len(tok) + 1, Len(text)))

\* text[b..e] writes a number: digits with at most one point among them
IsNumeral(text, b, e) ==
    /\ b <= e
    /\ \A i \in b..e : IsNumberChar(text[i])
    /\ \E i \in b..e : IsDigit(text[i])
    /\ Cardinality({i \in b..e : text[i] = "."}) <= 1

\* the float r is the number text[b..e] writes: its digits before the point,
\* plus those after it over a power of ten
IsNumberOf(r, text, b, e) ==
    LET point == IF \E i \in b..e : text[i] = "."
                 THEN CHOOSE i \in b..e : text[i] = "."
                 ELSE e + 1
        whole == IntOf(SubSeq(text, b, point - 1))
        part == IntOf(SubSeq(text, point + 1, e))
        scale == Pow10(IF point > e THEN 0 ELSE e - point)
    IN  r = Number(whole * scale + part, scale)

\* a string that is a number between tokens of the stripped set gives that number
NumberBetweenTokens(value, r) ==
    \A b \in 1..Len(value.text) : \A e \in b..Len(value.text) :
       (/\ IsNumeral(value.text, b, e)
        /\ IsTokens(LowerText(SubSeq(value.text, 1, b - 1)))
        /\ IsTokens(LowerText(SubSeq(value.text, e + 1, Len(value.text)))))
           => r = Return(r.body) /\ IsNumberOf(r.body, value.text, b, e)

\* a string without a digit gives None
NoDigitGivesNone(value, r) ==
    (\A i \in 1..Len(value.text) : ~IsDigit(value.text[i])) => r = Return(NoNumber)

\* C14: clean_numeric_value gives, for a string that is a number with tokens of
\* the stripped set and spaces before and after it, that number; for a string
\* without a digit, None; and it never raises, whatever it is given.
C14_CleanRuleAndNeverRaises ==
    Returned("clean_numeric_value")
        => /\ resp.status # Unhandled("").status
           /\ req.loc.type = "str"
                 => NumberBetweenTokens(req.loc, resp) /\ NoDigitGivesNone(req.loc, resp)

\* the two rules of C14 about strings, which the code keeps
C14_StringRules ==
    (Returned("clean_numeric_value") /\ req.loc.type = "str")
        => /\ resp.status # Unhandled("").status
           /\ NumberBetweenTokens(req.loc, resp)
           /\ NoDigitGivesNone(req.loc, resp)

\* "$ 18.5 usd"-like: a number between tokens has been cleaned
C14_StringCleaned ==
    /\ Returned("clean_numeric_value")
    /\ req.loc = Value("str", Tok.TDOLLAR \o Tok.T18 \o Tok.TUSDCAP)
    /\ resp = Return(Number(18, 1))


\* the calls of the request that changed application or users: the request
\* changes application by a successful insert and users by a successful update,
\* and in no other way
Writes ==
    {i \in 1..Len(calls) : /\ calls[i].op \in {"insert", "update"}
                           /\ calls[i].target \in {"application", "users"}
                           /\ calls[i].outcome = "ok"}

====
